---- MODULE Spec2Model ----
(***************************************************************************)
(* A model of the identifier algebra, the identifier factory and the       *)
(* renaming map of MUTE-structs (LogootSplit with renaming).               *)
(*                                                                         *)
(* Integers: the program works on 32-bit signed integers held in doubles,  *)
(* so sums and differences never wrap.  The model keeps the shape of that  *)
(* domain (a bottom, a top, sentinels built from them) on IntBits bits.    *)
(***************************************************************************)
EXTENDS Integers, Sequences, FiniteSets, TLC

VARIABLES
    tcase,          \* tuple harness: which operation the test case is about
    tuple,          \* tuple harness: receiver of compareTo
    other,          \* tuple harness: argument of compareTo
    actual,         \* tuple harness: result of tuple.compareTo(other)
    plain,          \* tuple harness: plain object given to fromPlain
    parsed,         \* tuple harness: result of IdentifierTuple.fromPlain(plain)
    id1,            \* factory: lower bound (NullId: none)
    id2,            \* factory: upper bound (NullId: none)
    replicaNumber,  \* factory: the caller's replica number
    clock,          \* factory: the caller's clock
    newId,          \* factory: result of createBetweenPosition
    map,            \* renaming: the RenamingMap
    oldIds,         \* renaming: ascending identifiers of the old epoch
    newIds,         \* renaming: result of map.initRenameSeq(oldIds)
    backIds,        \* renaming: map.reverseRenameId of each of newIds
    lists,          \* replication: each replica's sequence of identifiers
    sent,           \* replication: the operations broadcast so far
    applied,        \* replication: the operations each replica has applied
    early,          \* replication: whether a replica was delivered a delete
                    \*   before the insert of an identifier it removes
    block,          \* block harness: a LogootSBlock
    inorder,        \* rope harness: the nodes' contents, in order
    trees,          \* rope harness: two trees that hold them in that order
    treeLists,      \* rope harness: toList() of each of the two trees
    pc              \* position of the harness in use: "input", "done"

tupleVars == <<tcase, tuple, other, actual, plain, parsed>>
factoryVars == <<id1, id2, replicaNumber, clock, newId>>
renameVars == <<map, oldIds, newIds, backIds>>
listVars == <<lists, sent, applied, early>>
treeVars == <<inorder, trees, treeLists>>
vars == <<tupleVars, factoryVars, renameVars, listVars, treeVars, block, pc>>

(***************************************************************************)
(* Bounds of the model.                                                    *)
(***************************************************************************)
IntBits == 3
MaxIdLen == 2
MaxOffset == 1
MaxIntervals == 2
MaxNodes == 3

(***************************************************************************)
(* int32.ts                                                                *)
(***************************************************************************)
INT32_TOP == 2^(IntBits - 1) - 1
INT32_BOTTOM == -(2^(IntBits - 1))

Int32 == INT32_BOTTOM..INT32_TOP

\* A plain (JSON) value: an integer, a number with a fractional part (v is
\* its floor), or undefined (a missing property).
PlainInt(n) == [t |-> "int", v |-> n]
PlainFloat(n) == [t |-> "float", v |-> n]
Undefined == [t |-> "undefined", v |-> 0]
PlainArray(items) == [t |-> "array", v |-> items]
PlainObject(props) == [t |-> "object", v |-> props]

\* data-validation: isObject(o), Array.isArray(o), and the property o.name,
\* undefined when o has none
isObject(o) == o.t \in {"object", "array"}
isArray(o) == o.t = "array"
prop(o, name) ==
    IF o.t = "object" /\ name \in DOMAIN o.v THEN o.v[name] ELSE Undefined

isInt32(x) == x.t = "int" /\ INT32_BOTTOM <= x.v /\ x.v <= INT32_TOP

\* randomInt32(l, u): an integer of [l, u[
randomInt32(l, u) == {r \in Int32 : l <= r /\ r < u}

(***************************************************************************)
(* ordering.ts                                                             *)
(***************************************************************************)
Less == -1
Equal == 0
Greater == 1

(***************************************************************************)
(* identifiertuple.ts                                                      *)
(***************************************************************************)
IdentifierTuple(random, rn, c, offset) ==
    [random |-> random, replicaNumber |-> rn, clock |-> c, offset |-> offset]

asArray(t) == <<t.random, t.replicaNumber, t.clock, t.offset>>

\* clock compared before replicaNumber
tupleCompareToClockFirst(t, o) ==
    IF t.random < o.random THEN Less
    ELSE IF t.random > o.random THEN Greater
    ELSE IF t.clock < o.clock THEN Less
    ELSE IF t.clock > o.clock THEN Greater
    ELSE IF t.replicaNumber < o.replicaNumber THEN Less
    ELSE IF t.replicaNumber > o.replicaNumber THEN Greater
    ELSE IF t.offset < o.offset THEN Less
    ELSE IF t.offset > o.offset THEN Greater
    ELSE Equal

tupleCompareTo(t, o) ==
    IF t.random < o.random THEN Less
    ELSE IF t.random > o.random THEN Greater
    ELSE IF t.replicaNumber < o.replicaNumber THEN Less
    ELSE IF t.replicaNumber > o.replicaNumber THEN Greater
    ELSE IF t.clock < o.clock THEN Less
    ELSE IF t.clock > o.clock THEN Greater
    ELSE IF t.offset < o.offset THEN Less
    ELSE IF t.offset > o.offset THEN Greater
    ELSE Equal

tupleEqualsBase(t, o) ==
    /\ t.random = o.random
    /\ t.replicaNumber = o.replicaNumber
    /\ t.clock = o.clock

tupleFromBase(t, offset) ==
    IdentifierTuple(t.random, t.replicaNumber, t.clock, offset)

NullTuple == <<>>

\* fromPlain without the check of the first property
tupleFromPlainNoRandomCheck(o) ==
    IF /\ isInt32(o.replicaNumber) /\ isInt32(o.clock) /\ isInt32(o.offset)
    THEN IdentifierTuple(o.random.v, o.replicaNumber.v, o.clock.v, o.offset.v)
    ELSE NullTuple

tupleFromPlain(o) ==
    IF /\ isInt32(o.random) /\ isInt32(o.replicaNumber)
       /\ isInt32(o.clock) /\ isInt32(o.offset)
    THEN IdentifierTuple(o.random.v, o.replicaNumber.v, o.clock.v, o.offset.v)
    ELSE NullTuple

(***************************************************************************)
(* identifier.ts: an identifier is a non-empty sequence of tuples          *)
(***************************************************************************)
RECURSIVE compareFrom(_, _, _)
compareFrom(a, b, i) ==
    IF i > Len(a) \/ i > Len(b)
    THEN IF Len(a) < Len(b) THEN Less
         ELSE IF Len(a) > Len(b) THEN Greater
         ELSE Equal
    ELSE LET c == tupleCompareTo(a[i], b[i])
         IN IF c # Equal THEN c ELSE compareFrom(a, b, i + 1)

compareTo(a, b) == compareFrom(a, b, 1)

IdLess(a, b) == compareTo(a, b) = Less

lastOffset(id) == id[Len(id)].offset

\* same length, same tuples but for the offset of the last one
equalsBase(a, b) ==
    /\ Len(a) = Len(b)
    /\ \A i \in 1..(Len(a) - 1) : a[i] = b[i]
    /\ tupleEqualsBase(a[Len(a)], b[Len(b)])

isPrefix(a, b) ==
    /\ Len(a) <= Len(b)
    /\ \A i \in 1..Len(a) : a[i] = b[i]

concat(a, b) == a \o b

\* the tuples from (0-based) index k on
getTail(id, k) == SubSeq(id, k + 1, Len(id))

fromBase(id, offset) ==
    [id EXCEPT ![Len(id)] = tupleFromBase(id[Len(id)], offset)]

\* null, where an Identifier is expected
NullId == <<>>

\* Identifier.fromPlain: an object whose tuples property is a non-empty
\* array of plain tuples that all give a tuple
identifierFromPlain(o) ==
    IF isObject(o) /\ isArray(prop(o, "tuples")) /\ prop(o, "tuples").v # <<>>
    THEN LET tuples == [k \in DOMAIN prop(o, "tuples").v |->
                            tupleFromPlain(prop(o, "tuples").v[k])]
         IN IF \A k \in DOMAIN tuples : tuples[k] # NullTuple
            THEN tuples ELSE NullId
    ELSE NullId

(***************************************************************************)
(* idfactory.ts                                                            *)
(***************************************************************************)
MIN_TUPLE == IdentifierTuple(INT32_BOTTOM, 0, 0, 0)
MAX_TUPLE == IdentifierTuple(INT32_TOP, 0, 0, 0)


tuplesOf(id) == IF id = NullId THEN <<>> ELSE id

\* the i-th value (from 1) an infiniteSequence(values, defaultValue) yields
infiniteSequence(values, defaultValue, i) ==
    IF i <= Len(values) THEN values[i] ELSE defaultValue

createAtPosition(rn, c, position, offset) ==
    <<IdentifierTuple(position, rn, c, offset)>>

\* A loop that pushes the tuple of the second identifier: what
\* createBetweenPosition must not do
RECURSIVE betweenLoopCopyingSecond(_, _, _, _)
betweenLoopCopyingSecond(seq1, seq2, tuples, i) ==
    LET tuple1 == infiniteSequence(seq1, MIN_TUPLE, i)
        tuple2 == infiniteSequence(seq2, MAX_TUPLE, i)
    IN IF (tuple2.random - tuple1.random) < 2
       THEN betweenLoopCopyingSecond(seq1, seq2, Append(tuples, tuple2), i + 1)
       ELSE [tuples |-> tuples, tuple1 |-> tuple1, tuple2 |-> tuple2]

\* The loop of createBetweenPosition from its i-th round on: the tuples
\* pushed so far, and the two tuples the loop stops at.
RECURSIVE betweenLoop(_, _, _, _)
betweenLoop(seq1, seq2, tuples, i) ==
    LET tuple1 == infiniteSequence(seq1, MIN_TUPLE, i)
        tuple2 == infiniteSequence(seq2, MAX_TUPLE, i)
    IN IF (tuple2.random - tuple1.random) < 2
       THEN betweenLoop(seq1, seq2, Append(tuples, tuple1), i + 1)
       ELSE [tuples |-> tuples, tuple1 |-> tuple1, tuple2 |-> tuple2]

\* A createBetweenPosition that pushes the first tuple once more when the
\* loop has stopped: one tuple too many
createBetweenPositionPushingTwice(i1, i2, rn, c) ==
    LET stop == betweenLoop(tuplesOf(i1), tuplesOf(i2), <<>>, 1)
    IN {Append(Append(stop.tuples, stop.tuple1), IdentifierTuple(random, rn, c, 0)) :
            random \in randomInt32(stop.tuple1.random + 1, stop.tuple2.random)}

\* The identifiers createBetweenPosition may return, one per random draw.
createBetweenPosition(i1, i2, rn, c) ==
    LET stop == betweenLoop(tuplesOf(i1), tuplesOf(i2), <<>>, 1)
    IN {Append(stop.tuples, IdentifierTuple(random, rn, c, 0)) :
            random \in randomInt32(stop.tuple1.random + 1, stop.tuple2.random)}

(***************************************************************************)
(* identifierinterval.ts: the identifiers idBegin, ..., idEnd, which differ *)
(* in the offset of their last tuple only (begin..end)                     *)
(***************************************************************************)
IdentifierInterval(idBegin, end) == [idBegin |-> idBegin, end |-> end]

intervalBegin(idInterval) == lastOffset(idInterval.idBegin)

idEnd(idInterval) == fromBase(idInterval.idBegin, idInterval.end)

intervalLength(idInterval) == idInterval.end - intervalBegin(idInterval) + 1

toIds(idInterval) ==
    [k \in 1..intervalLength(idInterval) |->
        fromBase(idInterval.idBegin, intervalBegin(idInterval) + k - 1)]

NullInterval == <<>>

\* IdentifierInterval.fromPlain: an object with an idBegin that gives an
\* identifier and an int32 end not below idBegin's last offset
intervalFromPlain(o) ==
    IF isObject(o) /\ isInt32(prop(o, "end"))
    THEN LET idBegin == identifierFromPlain(prop(o, "idBegin"))
         IN IF idBegin # NullId /\ lastOffset(idBegin) <= prop(o, "end").v
            THEN IdentifierInterval(idBegin, prop(o, "end").v)
            ELSE NullInterval
    ELSE NullInterval

(***************************************************************************)
(* renamingmap.ts.  Indexes are the program's (from 0); a sequence s of    *)
(* the model holds the program's s[i] at s[i + 1].                         *)
(***************************************************************************)
\* What an operation that throws, or that builds an identifier without
\* tuples, yields.
Throw == <<>>

RECURSIVE flatMapToIds(_, _)
flatMapToIds(idIntervals, k) ==
    IF k > Len(idIntervals) THEN <<>>
    ELSE toIds(idIntervals[k]) \o flatMapToIds(idIntervals, k + 1)

\* the constructor's forEach: the index of the first identifier of each
\* interval, from interval k on, index being the count so far
RECURSIVE constructorIndexes(_, _, _)
constructorIndexes(idIntervals, k, index) ==
    IF k > Len(idIntervals) THEN <<>>
    ELSE <<index>> \o
         constructorIndexes(idIntervals, k + 1, index + intervalLength(idIntervals[k]))

RECURSIVE constructorIndex(_, _)
constructorIndex(idIntervals, k) ==
    IF k > Len(idIntervals) THEN 0
    ELSE intervalLength(idIntervals[k]) + constructorIndex(idIntervals, k + 1)

RenamingMap(rn, c, idIntervals) ==
    [replicaNumber |-> rn,
     clock |-> c,
     renamedIdIntervals |-> idIntervals,
     indexes |-> constructorIndexes(idIntervals, 1, 0),
     maxOffset |-> constructorIndex(idIntervals, 1) - 1]

NullMap == <<>>

\* fromPlain without the comparison of the two lengths: the intervals that
\* are not valid are left out
fromPlainFiltering(o) ==
    IF /\ isObject(o)
       /\ isInt32(prop(o, "replicaNumber")) /\ isInt32(prop(o, "clock"))
       /\ isArray(prop(o, "renamedIdIntervals"))
       /\ Len(prop(o, "renamedIdIntervals").v) > 0
    THEN LET plainIntervals == prop(o, "renamedIdIntervals").v
             renamedIdIntervals ==
                SelectSeq([k \in DOMAIN plainIntervals |->
                                intervalFromPlain(plainIntervals[k])],
                          LAMBDA v : v # NullInterval)
         IN RenamingMap(prop(o, "replicaNumber").v, prop(o, "clock").v,
                        renamedIdIntervals)
    ELSE NullMap

fromPlain(o) ==
    IF /\ isObject(o)
       /\ isInt32(prop(o, "replicaNumber")) /\ isInt32(prop(o, "clock"))
       /\ isArray(prop(o, "renamedIdIntervals"))
       /\ Len(prop(o, "renamedIdIntervals").v) > 0
    THEN LET plainIntervals == prop(o, "renamedIdIntervals").v
             renamedIdIntervals ==
                SelectSeq([k \in DOMAIN plainIntervals |->
                                intervalFromPlain(plainIntervals[k])],
                          LAMBDA v : v # NullInterval)
         IN IF Len(plainIntervals) = Len(renamedIdIntervals)
            THEN RenamingMap(prop(o, "replicaNumber").v, prop(o, "clock").v,
                             renamedIdIntervals)
            ELSE NullMap
    ELSE NullMap

firstId(m) == m.renamedIdIntervals[1].idBegin

lastId(m) == idEnd(m.renamedIdIntervals[Len(m.renamedIdIntervals)])

newRandom(m) == firstId(m)[1].random

newFirstId(m) == createAtPosition(m.replicaNumber, m.clock, newRandom(m), 0)

newLastId(m) == createAtPosition(m.replicaNumber, m.clock, newRandom(m), m.maxOffset)

\* The binary search of findPositionFromIndex on [l, r]: <<m, offset>>, or
\* <<-1, -1>> when it throws (the Error of its last line, or the TypeError
\* of reading renamedIdIntervals[m].length past the last interval), or
\* <<-2, -2>> when it loops for ever (l = r = m and index < indexes[m]).
RECURSIVE findPositionLoop(_, _, _, _)
findPositionLoop(m, index, l, r) ==
    IF ~(l <= r) THEN <<-1, -1>>
    ELSE LET mid == (l + r) \div 2
         IN IF mid >= Len(m.renamedIdIntervals) THEN <<-1, -1>>
            ELSE LET otherIndex == m.indexes[mid + 1]
                     otherIdInterval == m.renamedIdIntervals[mid + 1]
                 IN IF otherIndex + intervalLength(otherIdInterval) <= index
                    THEN findPositionLoop(m, index, mid + 1, r)
                    ELSE IF index < otherIndex
                    THEN IF mid = r THEN <<-2, -2>>
                         ELSE findPositionLoop(m, index, l, mid)
                    ELSE <<mid, index - otherIndex + intervalBegin(otherIdInterval)>>

findPositionFromIndex(m, index) ==
    findPositionLoop(m, index, 0, Len(m.renamedIdIntervals))

findIdFromIndex(m, index) ==
    LET position == findPositionFromIndex(m, index)
    IN IF position[1] < 0 THEN Throw
       ELSE fromBase(m.renamedIdIntervals[position[1] + 1].idBegin, position[2])

\* <<predecessorId, successorId>>; Throw for either when the search throws,
\* and for successorId when there is no next interval
findPredecessorAndSuccessorFromIndex(m, index) ==
    LET position == findPositionFromIndex(m, index)
    IN IF position[1] < 0 THEN <<Throw, Throw>>
       ELSE LET predecessorIndex == position[1]
                predecessorOffset == position[2]
                predecessorIdInterval == m.renamedIdIntervals[predecessorIndex + 1]
                predecessorId == fromBase(predecessorIdInterval.idBegin, predecessorOffset)
            IN <<predecessorId,
                 IF predecessorOffset # predecessorIdInterval.end
                 THEN fromBase(predecessorId, predecessorOffset + 1)
                 ELSE IF predecessorIndex + 1 >= Len(m.renamedIdIntervals) THEN Throw
                 ELSE m.renamedIdIntervals[predecessorIndex + 2].idBegin>>

hasBeenRenamed(m, id) ==
    /\ equalsBase(id, newFirstId(m))
    /\ 0 <= lastOffset(id)
    /\ lastOffset(id) <= m.maxOffset

renameIdFromIndex(m, index) ==
    createAtPosition(m.replicaNumber, m.clock, newRandom(m), index)

\* renameIdLessThanFirstId without its comparison to newFirstId
renameIdLessThanFirstIdUnchanged(m, id) ==
    LET closestPredecessorOfFirstId == fromBase(firstId(m), lastOffset(firstId(m)) - 1)
        closestPredecessorOfNewFirstId ==
            fromBase(newFirstId(m), lastOffset(newFirstId(m)) - 1)
    IN IF /\ Len(closestPredecessorOfFirstId) + 1 < Len(id)
          /\ isPrefix(closestPredecessorOfFirstId, id)
          /\ tupleCompareTo(id[Len(closestPredecessorOfFirstId) + 1], MAX_TUPLE) = Equal
       THEN concat(closestPredecessorOfNewFirstId,
                   getTail(id, Len(closestPredecessorOfFirstId) + 1))
       ELSE id

renameIdLessThanFirstId(m, id) ==
    LET closestPredecessorOfFirstId == fromBase(firstId(m), lastOffset(firstId(m)) - 1)
        closestPredecessorOfNewFirstId ==
            fromBase(newFirstId(m), lastOffset(newFirstId(m)) - 1)
    IN IF /\ Len(closestPredecessorOfFirstId) + 1 < Len(id)
          /\ isPrefix(closestPredecessorOfFirstId, id)
          /\ tupleCompareTo(id[Len(closestPredecessorOfFirstId) + 1], MAX_TUPLE) = Equal
       THEN concat(closestPredecessorOfNewFirstId,
                   getTail(id, Len(closestPredecessorOfFirstId) + 1))
       ELSE IF compareTo(id, newFirstId(m)) = Less
       THEN id
       ELSE concat(closestPredecessorOfNewFirstId, id)

renameIdGreaterThanLastId(m, id) ==
    IF /\ compareTo(newLastId(m), lastId(m)) = Less
       /\ Len(lastId(m)) + 1 < Len(id)
       /\ isPrefix(lastId(m), id)
       /\ tupleCompareTo(id[Len(lastId(m)) + 1], MIN_TUPLE) = Equal
    THEN getTail(id, Len(lastId(m)) + 1)
    ELSE IF compareTo(newLastId(m), id) = Less
    THEN id
    ELSE concat(newLastId(m), id)

\* renameIdFromPredecessorId with the new identifier of the successor as
\* the prefix
renameIdFromPredecessorIdOnSuccessor(m, id, predecessorId, index) ==
    LET newPredecessorId ==
            createAtPosition(m.replicaNumber, m.clock, newRandom(m), index + 1)
        successorId == findIdFromIndex(m, index + 1)
    IN IF /\ Len(predecessorId) + 1 < Len(id)
          /\ isPrefix(predecessorId, id)
          /\ tupleCompareTo(id[Len(predecessorId) + 1], MIN_TUPLE) = Equal
          /\ compareTo(getTail(id, Len(predecessorId) + 1), predecessorId) = Less
       THEN concat(newPredecessorId, getTail(id, Len(predecessorId) + 1))
       ELSE IF successorId = Throw
       THEN Throw
       ELSE IF /\ Len(successorId) + 1 < Len(id)
               /\ isPrefix(fromBase(successorId, lastOffset(successorId) - 1), id)
               /\ tupleCompareTo(id[Len(successorId) + 1], MAX_TUPLE) = Equal
               /\ compareTo(successorId, getTail(id, Len(successorId) + 1)) = Less
       THEN concat(newPredecessorId, getTail(id, Len(successorId) + 1))
       ELSE concat(newPredecessorId, id)

\* renameIdFromPredecessorId with the tails taken one tuple too early, so
\* that they keep the MIN_TUPLE or MAX_TUPLE that marks them
renameIdFromPredecessorIdKeepingMarker(m, id, predecessorId, index) ==
    LET newPredecessorId ==
            createAtPosition(m.replicaNumber, m.clock, newRandom(m), index)
        successorId == findIdFromIndex(m, index + 1)
    IN IF /\ Len(predecessorId) + 1 < Len(id)
          /\ isPrefix(predecessorId, id)
          /\ tupleCompareTo(id[Len(predecessorId) + 1], MIN_TUPLE) = Equal
          /\ compareTo(getTail(id, Len(predecessorId) + 1), predecessorId) = Less
       THEN concat(newPredecessorId, getTail(id, Len(predecessorId)))
       ELSE IF successorId = Throw
       THEN Throw
       ELSE IF /\ Len(successorId) + 1 < Len(id)
               /\ isPrefix(fromBase(successorId, lastOffset(successorId) - 1), id)
               /\ tupleCompareTo(id[Len(successorId) + 1], MAX_TUPLE) = Equal
               /\ compareTo(successorId, getTail(id, Len(successorId) + 1)) = Less
       THEN concat(newPredecessorId, getTail(id, Len(successorId)))
       ELSE concat(newPredecessorId, id)

renameIdFromPredecessorId(m, id, predecessorId, index) ==
    LET newPredecessorId ==
            createAtPosition(m.replicaNumber, m.clock, newRandom(m), index)
        successorId == findIdFromIndex(m, index + 1)
    IN IF /\ Len(predecessorId) + 1 < Len(id)
          /\ isPrefix(predecessorId, id)
          /\ tupleCompareTo(id[Len(predecessorId) + 1], MIN_TUPLE) = Equal
          /\ compareTo(getTail(id, Len(predecessorId) + 1), predecessorId) = Less
       THEN concat(newPredecessorId, getTail(id, Len(predecessorId) + 1))
       ELSE IF successorId = Throw
       THEN Throw
       ELSE IF /\ Len(successorId) + 1 < Len(id)
               /\ isPrefix(fromBase(successorId, lastOffset(successorId) - 1), id)
               /\ tupleCompareTo(id[Len(successorId) + 1], MAX_TUPLE) = Equal
               /\ compareTo(successorId, getTail(id, Len(successorId) + 1)) = Less
       THEN concat(newPredecessorId, getTail(id, Len(successorId) + 1))
       ELSE concat(newPredecessorId, id)

\* the while loop of renameIds with > in place of >=
RECURSIVE advanceIndexStrict(_, _, _)
advanceIndexStrict(renamedIds, idToRename, currentIndex) ==
    IF /\ currentIndex < Len(renamedIds) - 1
       /\ compareTo(idToRename, renamedIds[currentIndex + 2]) > Equal
    THEN advanceIndexStrict(renamedIds, idToRename, currentIndex + 1)
    ELSE currentIndex

\* the while loop of renameIds: currentIndex moved up to the last renamed
\* identifier that is <= idToRename
RECURSIVE advanceIndex(_, _, _)
advanceIndex(renamedIds, idToRename, currentIndex) ==
    IF /\ currentIndex < Len(renamedIds) - 1
       /\ compareTo(idToRename, renamedIds[currentIndex + 2]) >= Equal
    THEN advanceIndex(renamedIds, idToRename, currentIndex + 1)
    ELSE currentIndex

\* the body of the map callback of renameIds, once currentIndex is moved
renameIdAt(m, renamedIds, idToRename, currentIndex) ==
    IF currentIndex = -1
    THEN renameIdLessThanFirstId(m, idToRename)
    ELSE IF /\ currentIndex < Len(renamedIds)
            /\ compareTo(idToRename, renamedIds[currentIndex + 1]) = Equal
    THEN renameIdFromIndex(m, currentIndex)
    ELSE IF currentIndex = Len(renamedIds) - 1
    THEN renameIdGreaterThanLastId(m, idToRename)
    ELSE renameIdFromPredecessorId(m, idToRename, renamedIds[currentIndex + 1], currentIndex)

RECURSIVE renameIdsFrom(_, _, _, _, _)
renameIdsFrom(m, renamedIds, idsToRename, k, currentIndex) ==
    IF k > Len(idsToRename) THEN <<>>
    ELSE LET moved == advanceIndex(renamedIds, idsToRename[k], currentIndex)
         IN <<renameIdAt(m, renamedIds, idsToRename[k], moved)>>
              \o renameIdsFrom(m, renamedIds, idsToRename, k + 1, moved)

renameIds(m, idsToRename, initialIndex) ==
    renameIdsFrom(m, flatMapToIds(m.renamedIdIntervals, 1), idsToRename, 1, initialIndex)

initRenameSeq(m, idsToRename) == renameIds(m, idsToRename, -1)

\* the end of a search that gives the index of the successor where
\* findIndexOfIdOrPredecessor gives the predecessor's
findIndexNotFoundSuccessor(m, l) ==
    IF Len(m.indexes) <= l THEN m.maxOffset ELSE m.indexes[l + 1]

\* what findIndexOfIdOrPredecessor returns once the search has ended at l
\* without finding an interval that holds id
findIndexNotFound(m, l) ==
    IF Len(m.indexes) <= l THEN m.maxOffset ELSE m.indexes[l + 1] - 1

\* the while loop of findIndexOfIdOrPredecessor from the bounds l and r
RECURSIVE findIndexLoop(_, _, _, _)
findIndexLoop(m, id, l, r) ==
    IF l < r
    THEN LET mid == (l + r) \div 2
             otherInterval == m.renamedIdIntervals[mid + 1]
         IN IF compareTo(idEnd(otherInterval), id) = Less
            THEN findIndexLoop(m, id, mid + 1, r)
            ELSE IF compareTo(id, otherInterval.idBegin) = Less
            THEN findIndexLoop(m, id, l, mid)
            ELSE m.indexes[mid + 1]
                    + (id[Len(otherInterval.idBegin)].offset - intervalBegin(otherInterval))
    ELSE findIndexNotFound(m, l)

findIndexOfIdOrPredecessor(m, id) ==
    findIndexLoop(m, id, 0, Len(m.renamedIdIntervals))

initRenameIds(m, idsToRename) ==
    renameIds(m, idsToRename, findIndexOfIdOrPredecessor(m, idsToRename[1]))

\* reverseRenameIdInside that gives the tail in every case
reverseRenameIdInsideTailOnly(m, id) ==
    LET tail == getTail(id, 1)
        found == findPredecessorAndSuccessorFromIndex(m, id[1].offset)
    IN IF found[1] = Throw \/ found[2] = Throw THEN Throw ELSE tail

\* reverseRenameId from "newFirstId < id < newLastId" on (its last case)
reverseRenameIdInside(m, id) ==
    LET tail == getTail(id, 1)
        found == findPredecessorAndSuccessorFromIndex(m, id[1].offset)
        predecessorId == found[1]
        successorId == found[2]
    IN IF predecessorId = Throw \/ successorId = Throw
       THEN Throw
       ELSE IF compareTo(tail, predecessorId) = Less
       THEN predecessorId \o <<MIN_TUPLE>> \o tail
       ELSE IF compareTo(successorId, tail) = Less
       THEN fromBase(successorId, lastOffset(successorId) - 1) \o <<MAX_TUPLE>> \o tail
       ELSE tail

\* reverseRenameId in its case "id < newFirstId"; an end without tuples
\* makes end.tuples[0].random throw
reverseRenameIdBeforeNewFirstId(m, id) ==
    LET end == getTail(id, 1)
    IN IF end = <<>>
       THEN Throw
       ELSE IF end[1].random = newRandom(m)
       THEN end
       ELSE fromBase(firstId(m), lastOffset(firstId(m)) - 1) \o <<MAX_TUPLE>> \o end

\* reverseRenameId in its case "lastId < newLastId < id < closestSuccessorOfNewLastId"
reverseRenameIdAfterNewLastId(m, id) ==
    LET tail2 == getTail(id, 1)
    IN IF compareTo(tail2, lastId(m)) = Less
       THEN lastId(m) \o <<MIN_TUPLE>> \o tail2
       ELSE IF /\ compareTo(lastId(m), tail2) = Less
               /\ compareTo(tail2, newLastId(m)) = Less
       THEN tail2
       ELSE id

reverseRenameId(m, id) ==
    LET closestPredecessorOfNewFirstId ==
            fromBase(newFirstId(m), lastOffset(newFirstId(m)) - 1)
        closestSuccessorOfNewLastId ==
            fromBase(newLastId(m), lastOffset(newLastId(m)) + 1)
        minFirstId ==
            IF compareTo(firstId(m), closestPredecessorOfNewFirstId) = Less
            THEN firstId(m) ELSE closestPredecessorOfNewFirstId
        maxLastId ==
            IF compareTo(lastId(m), newLastId(m)) = Greater
            THEN lastId(m) ELSE closestSuccessorOfNewLastId
    IN IF hasBeenRenamed(m, id)
       THEN findIdFromIndex(m, lastOffset(id))
       ELSE IF \/ compareTo(id, minFirstId) = Less
               \/ compareTo(maxLastId, id) = Less
       THEN id
       ELSE IF compareTo(id, newFirstId(m)) = Less
       THEN reverseRenameIdBeforeNewFirstId(m, id)
       ELSE IF /\ compareTo(lastId(m), newLastId(m)) = Less
               /\ compareTo(newLastId(m), id) = Less
               /\ compareTo(id, closestSuccessorOfNewLastId) = Less
       THEN reverseRenameIdAfterNewLastId(m, id)
       ELSE IF /\ compareTo(newLastId(m), id) = Less
               /\ compareTo(id, lastId(m)) = Less
       THEN lastId(m) \o <<MIN_TUPLE>> \o id
       ELSE reverseRenameIdInside(m, id)

(***************************************************************************)
(* extendedrenamingmap.ts.  The nested Map of the constructor is held as   *)
(* one function from <<replicaNumber, clock, offset>> to the new offset.   *)
(***************************************************************************)
\* the key of an identifier: replicaNumber, clock and offset of its last
\* tuple (Identifier.replicaNumber, Identifier.clock, Identifier.lastOffset)
extKey(id) == <<id[Len(id)].replicaNumber, id[Len(id)].clock, id[Len(id)].offset>>

\* the forEach of the constructor from the k-th renamed identifier on:
\* offsetMap.set(id.lastOffset, newOffset), a later set replacing an earlier
RECURSIVE extConstructorMap(_, _, _)
extConstructorMap(renamedIds, k, acc) ==
    IF k > Len(renamedIds) THEN acc
    ELSE extConstructorMap(renamedIds, k + 1,
            [key \in DOMAIN acc \cup {extKey(renamedIds[k])} |->
                IF key = extKey(renamedIds[k]) THEN k - 1 ELSE acc[key]])

ExtendedRenamingMap(rn, c, idIntervals) ==
    LET renamedIds == flatMapToIds(idIntervals, 1)
    IN [replicaNumber |-> rn,
        clock |-> c,
        renamedIds |-> renamedIds,
        map |-> extConstructorMap(renamedIds, 1, <<>>),
        newOffsetToOldIdMap |-> [newOffset \in 0..(Len(renamedIds) - 1) |->
                                    renamedIds[newOffset + 1]],
        maxOffset |-> Len(renamedIds) - 1]

extFirstId(m) == m.renamedIds[1]

extLastId(m) == m.renamedIds[Len(m.renamedIds)]

extNewRandom(m) == extFirstId(m)[1].random

extNewFirstId(m) == createAtPosition(m.replicaNumber, m.clock, extNewRandom(m), 0)

extNewLastId(m) ==
    createAtPosition(m.replicaNumber, m.clock, extNewRandom(m), m.maxOffset)

\* helpers.findPredecessor: the greatest element of the list below element
findPredecessor(list, element) ==
    LET below == {k \in DOMAIN list : compareTo(list[k], element) = Less}
    IN IF below = {} THEN Throw
       ELSE list[CHOOSE k \in below : \A j \in below : j <= k]

\* renameId of an identifier that the map holds as a key
renameIdFromMap(m, id) ==
    createAtPosition(m.replicaNumber, m.clock, extNewRandom(m), m.map[extKey(id)])

renameId(m, id) ==
    IF compareTo(id, extFirstId(m)) = Less \/ compareTo(extLastId(m), id) = Less
    THEN id
    ELSE IF extKey(id) \in DOMAIN m.map
    THEN renameIdFromMap(m, id)
    ELSE LET predecessorId == findPredecessor(m.renamedIds, id)
         IN concat(renameIdFromMap(m, predecessorId), id)

extHasBeenRenamed(m, id) ==
    /\ equalsBase(id, extNewFirstId(m))
    /\ 0 <= lastOffset(id)
    /\ lastOffset(id) <= m.maxOffset

\* ExtendedRenamingMap.reverseRenameId; Throw when the tail has no tuple or
\* an offset is not a key of newOffsetToOldIdMap
extReverseRenameId(m, id) ==
    IF extHasBeenRenamed(m, id)
    THEN m.newOffsetToOldIdMap[lastOffset(id)]
    ELSE IF \/ compareTo(id, extFirstId(m)) = Less
            \/ compareTo(extLastId(m), id) = Less
    THEN id
    ELSE IF /\ compareTo(extNewLastId(m), id) = Less
            /\ compareTo(id, extLastId(m)) = Less
    THEN concat(extLastId(m), id)
    ELSE LET tail == getTail(id, 1)
             headOffset == id[1].offset
         IN IF \/ tail = <<>>
               \/ headOffset \notin DOMAIN m.newOffsetToOldIdMap
               \/ headOffset + 1 \notin DOMAIN m.newOffsetToOldIdMap
            THEN Throw
            ELSE LET predecessorId == m.newOffsetToOldIdMap[headOffset]
                     successorId == m.newOffsetToOldIdMap[headOffset + 1]
                 IN IF compareTo(tail, predecessorId) = Less
                    THEN concat(predecessorId, tail)
                    ELSE IF compareTo(successorId, tail) = Less
                    THEN concat(fromBase(successorId, lastOffset(successorId) - 1), tail)
                    ELSE tail

(***************************************************************************)
(* logootsblock.ts                                                         *)
(***************************************************************************)
\* IdentifierInterval.union(aBegin, aEnd): the smallest interval that holds
\* the interval and the offsets aBegin..aEnd
union(idInterval, aBegin, aEnd) ==
    LET minBegin == IF aBegin < intervalBegin(idInterval)
                    THEN aBegin ELSE intervalBegin(idInterval)
        maxEnd == IF aEnd > idInterval.end THEN aEnd ELSE idInterval.end
    IN IdentifierInterval(fromBase(idInterval.idBegin, minBegin), maxEnd)

LogootSBlock(idInterval, nbElt) == [idInterval |-> idInterval, nbElement |-> nbElt]

NullBlock == <<>>

blockFromPlain(o) ==
    IF isObject(o)
    THEN LET plainId == prop(o, "idInterval")
             nbElt == prop(o, "nbElement")
         IN IF isObject(plainId) /\ nbElt.t \in {"int", "float"}
               /\ isInt32(nbElt) /\ nbElt.v >= 0
            THEN LET id == intervalFromPlain(plainId)
                 IN IF id # NullInterval THEN LogootSBlock(id, nbElt.v) ELSE NullBlock
            ELSE NullBlock
    ELSE NullBlock

addBlock(b, pos, length) ==
    [idInterval |-> union(b.idInterval, pos, pos + length - 1),
     nbElement |-> b.nbElement + length]

delBlock(b, nbElt) == [b EXCEPT !.nbElement = @ - nbElt]

(***************************************************************************)
(* ropesnodes.ts: a node holds the elements offset..offset + length - 1 of *)
(* its block, and a left and a right subtree                               *)
(***************************************************************************)
NullNode == <<>>

RopesNodes(b, offset, length, left, right) ==
    [block |-> b, actualBegin |-> offset, length |-> length,
     left |-> left, right |-> right]

leaf(b, offset, length) == RopesNodes(b, offset, length, NullNode, NullNode)

\* the identifiers of the node's elements
getIdentifierInterval(node) ==
    IdentifierInterval(fromBase(node.block.idInterval.idBegin, node.actualBegin),
                       node.actualBegin + node.length - 1)

\* toList that puts the node before its left subtree
RECURSIVE toListNodeFirst(_)
toListNodeFirst(node) ==
    IF node = NullNode THEN <<>>
    ELSE <<getIdentifierInterval(node)>> \o toListNodeFirst(node.left)
            \o toListNodeFirst(node.right)

RECURSIVE toList(_)
toList(node) ==
    IF node = NullNode THEN <<>>
    ELSE toList(node.left) \o <<getIdentifierInterval(node)>> \o toList(node.right)

(***************************************************************************)
(* The replicated list and its operations.  A list is held as the          *)
(* in-order traversal of its rope: the identifiers of its elements, in     *)
(* ascending order.  All the operations are of the origin epoch.           *)
(***************************************************************************)
OriginEpoch == [replicaNumber |-> 0, epochNumber |-> 0]

LogootSAdd(idInterval) == [lid |-> <<idInterval>>]

LogootSDel(lid, author) == [lid |-> lid, author |-> author]

RenamableLogootSAdd(op, epoch) == [kind |-> "add", op |-> op, epoch |-> epoch]

RenamableLogootSDel(op, epoch) == [kind |-> "del", op |-> op, epoch |-> epoch]

\* the identifiers of the intervals lid[k], lid[k + 1], ...
RECURSIVE idsOf(_, _)
idsOf(lid, k) ==
    IF k > Len(lid) THEN {}
    ELSE {toIds(lid[k])[j] : j \in 1..intervalLength(lid[k])} \cup idsOf(lid, k + 1)

\* one identifier put at its place, by comparison with those of the list
RECURSIVE insertId(_, _)
insertId(ids, id) ==
    IF ids = <<>> THEN <<id>>
    ELSE IF compareTo(id, Head(ids)) = Less THEN <<id>> \o ids
    ELSE IF compareTo(id, Head(ids)) = Equal THEN ids
    ELSE <<Head(ids)>> \o insertId(Tail(ids), id)

RECURSIVE insertIds(_, _, _)
insertIds(ids, idsToInsert, k) ==
    IF k > Len(idsToInsert) THEN ids
    ELSE insertIds(insertId(ids, idsToInsert[k]), idsToInsert, k + 1)

insertRemote(renamableList, epoch, op) ==
    insertIds(renamableList, toIds(op.lid[1]), 1)

\* the elements of the intervals that the list holds are removed; those
\* it does not hold are left out (nothing is kept of the delete)
delRemote(renamableList, epoch, op) ==
    SelectSeq(renamableList, LAMBDA id : id \notin idsOf(op.lid, 1))

delLocal(renamableList, lid) ==
    SelectSeq(renamableList, LAMBDA id : id \notin idsOf(lid, 1))

\* RenamableLogootSDel.execute that leaves the list as it is
executeWithoutEffect(renamableList, del) == renamableList

\* RenamableLogootSDel.execute
execute(renamableList, del) == delRemote(renamableList, del.epoch, del.op)

\* RenamableLogootSAdd.execute
executeAdd(renamableList, add) == insertRemote(renamableList, add.epoch, add.op)

(***************************************************************************)
(* Inputs of the harnesses                                                 *)
(***************************************************************************)
Idle == "idle"

\* Tuple harness
TestTuples ==
    LET TupleFields == {INT32_BOTTOM, 0, INT32_TOP}
    IN
        {IdentifierTuple(r, n, c, o) :
            r \in TupleFields, n \in TupleFields, c \in TupleFields, o \in TupleFields}

PlainTuples ==
    LET PlainValues ==
            {PlainInt(n) : n \in {INT32_BOTTOM - 1, INT32_BOTTOM, -1, 0, INT32_TOP, INT32_TOP + 1}}
                \cup {PlainFloat(0), Undefined}
    IN
        [random : PlainValues, replicaNumber : PlainValues,
         clock : PlainValues, offset : PlainValues]

\* Factory harness
FactoryRandoms == {INT32_BOTTOM, INT32_BOTTOM + 1, 0, 1, INT32_TOP}
FactoryTuples ==
    {IdentifierTuple(r, n, 0, 0) : r \in FactoryRandoms, n \in {0, 1}}
RECURSIVE SeqsUpTo(_, _)
SeqsUpTo(S, n) ==
    IF n = 0 THEN {<<>>}
    ELSE LET shorter == SeqsUpTo(S, n - 1)
         IN shorter \cup {Append(s, x) : s \in shorter, x \in S}
FactoryIds == SeqsUpTo(FactoryTuples, MaxIdLen) \ {<<>>}
ShapeIds ==
    LET ShapeTuples ==
            {IdentifierTuple(r, 0, 0, 0) : r \in {INT32_BOTTOM, 0, 1, INT32_TOP}}
                \cup {IdentifierTuple(r, 1, 0, 0) : r \in {INT32_BOTTOM, 0}}
    IN
        SeqsUpTo(ShapeTuples, MaxIdLen) \ {<<>>}

\* Renaming harness.  The old epoch's identifiers were made by replicas 0, 1
\* and 2 at clock 0; replica 1 renames at clock 1, which no identifier of
\* the old epoch carries, and replica 2 renames concurrently (the sibling
\* epoch).
OldRandoms == {-1, 0, 1}
OldReplicas == {0, 1, 2}
OldClocks == {0}
RenamingReplicas == {1}
SiblingReplicas == {2}
RenameClocks == {1}
OldOffsets == 0..MaxOffset
OldTuples ==
    {IdentifierTuple(r, n, c, o) :
        r \in OldRandoms, n \in OldReplicas, c \in OldClocks, o \in OldOffsets}
SecondTuples ==
    {IdentifierTuple(r, n, c, 0) : r \in OldRandoms, n \in {0, 2}, c \in OldClocks}
PlainOldIds ==
    {<<t>> : t \in OldTuples} \cup {<<t, u>> : t \in OldTuples, u \in SecondTuples}

\* The intervals a map may rename: offsets begin..end within 0..MaxOffset
\* of a few bases.
TestBases ==
    {<<IdentifierTuple(0, 0, c, 0)>> : c \in OldClocks}
        \cup {<<IdentifierTuple(0, 2, c, 0)>> : c \in OldClocks}
        \cup {<<IdentifierTuple(1, 0, c, 0)>> : c \in OldClocks}
        \cup {<<IdentifierTuple(0, 2, c, 0), IdentifierTuple(0, 2, c, 0)>> : c \in OldClocks}
TestBegins == {fromBase(b, o) : b \in TestBases, o \in OldOffsets}
TestIntervals ==
    {idInterval \in {IdentifierInterval(b, e) : b \in TestBegins, e \in OldOffsets} :
        intervalBegin(idInterval) <= idInterval.end}
Ascending(idIntervals) ==
    \A k \in 1..(Len(idIntervals) - 1) :
        IdLess(idEnd(idIntervals[k]), idIntervals[k + 1].idBegin)
TestMaps ==
    LET TestIntervalLists ==
            {l \in SeqsUpTo(TestIntervals, MaxIntervals) : l # <<>> /\ Ascending(l)}
    IN
        {RenamingMap(rn, c, l) :
            rn \in RenamingReplicas, c \in RenameClocks, l \in TestIntervalLists}

\* Identifiers of the old epoch that come from a sibling epoch: another
\* replica renamed concurrently, an identifier w was inserted in its epoch
\* between two of its new identifiers (by replica 0, at clock 2), and w was
\* brought back to the old epoch by the sibling map's reverseRenameId.
SiblingMaps ==
    LET SiblingBegins ==
            {b \in TestBases : Len(b) = 1 /\ b[1].random = 0}
    IN
        {RenamingMap(rn, c, <<IdentifierInterval(b, 0), IdentifierInterval(e, lastOffset(e))>>) :
            rn \in SiblingReplicas, c \in RenameClocks,
            b \in SiblingBegins, e \in {x \in TestBegins : \A y \in SiblingBegins : IdLess(y, x)}}
SiblingInserts(sm) ==
    createBetweenPosition(renameIdFromIndex(sm, 0), renameIdFromIndex(sm, 1), 0, 2)
SiblingOldIds ==
    UNION {{reverseRenameId(sm, w) : w \in SiblingInserts(sm)} : sm \in SiblingMaps}

OldIds == PlainOldIds \cup SiblingOldIds
PairedOldIds == {<<t>> : t \in OldTuples} \cup SiblingOldIds

\* Reverse-renaming harness: the maps of the renaming harness and those
\* that begin at an identifier of two tuples whose first tuple is below
\* newFirstId; two identifiers of the old epoch, and the replicas that
\* insert between their renamings in the new epoch (at clock 2).
ReverseBases ==
    TestBases \cup
    {<<IdentifierTuple(0, 0, c, 0), IdentifierTuple(0, 2, c, 0)>> : c \in OldClocks}
ReverseMaps ==
    LET ReverseIntervals ==
            {IdentifierInterval(b, e) : b \in ReverseBases, e \in OldOffsets}
    IN
        {RenamingMap(rn, c, l) :
            rn \in RenamingReplicas, c \in RenameClocks,
            l \in {x \in SeqsUpTo(ReverseIntervals, MaxIntervals) : x # <<>> /\ Ascending(x)}}
ReverseOldIds ==
    {<<t>> : t \in {u \in OldTuples : u.offset = 0}}
        \cup {<<IdentifierTuple(0, 0, c, 0), u>> : c \in OldClocks, u \in SecondTuples}


\* Deserialization harness: plain payloads for RenamingMap.fromPlain
toPlainTuple(t) ==
    [random |-> PlainInt(t.random), replicaNumber |-> PlainInt(t.replicaNumber),
     clock |-> PlainInt(t.clock), offset |-> PlainInt(t.offset)]
toPlainId(id) ==
    PlainObject([tuples |-> PlainArray([k \in DOMAIN id |-> toPlainTuple(id[k])])])
PlainIntervals ==
    LET PlainEnds == {PlainInt(0), PlainInt(1), PlainInt(INT32_TOP + 1), Undefined}
    IN
        LET PlainIdBegins ==
                {toPlainId(<<IdentifierTuple(r, 0, 0, o)>>) : r \in {0}, o \in {0, 1}}
                    \cup {toPlainId(<<IdentifierTuple(1, 0, 0, 0), IdentifierTuple(0, 2, 0, 0)>>)}
                    \cup {Undefined,
                          PlainObject([tuples |-> Undefined]),
                          PlainObject([tuples |-> PlainArray(<<>>)]),
                          PlainObject([tuples |-> PlainArray(
                            <<[toPlainTuple(MIN_TUPLE) EXCEPT !.random = PlainFloat(0)]>>)])}
        IN
            {PlainObject([idBegin |-> b, end |-> e]) : b \in PlainIdBegins, e \in PlainEnds}
                \cup {Undefined, PlainObject([idBegin |-> toPlainId(<<MIN_TUPLE>>)])}
PlainMaps ==
    {PlainObject([replicaNumber |-> rn, clock |-> c, renamedIdIntervals |-> l]) :
        rn \in {PlainInt(1), PlainFloat(1), Undefined},
        c \in {PlainInt(1), PlainInt(INT32_TOP + 1)},
        l \in {PlainArray(x) : x \in SeqsUpTo(PlainIntervals, MaxIntervals)}
                \cup {Undefined, PlainInt(0)}}
        \cup {Undefined, PlainInt(0), PlainArray(<<>>),
              PlainObject([replicaNumber |-> PlainInt(1), clock |-> PlainInt(1)])}

\* Replication harness: two replicas; what each may insert, and the
\* intervals a delete may carry
Replicas == {1, 2}
InsertIntervals ==
    {IdentifierInterval(<<IdentifierTuple(0, 1, 0, 0)>>, MaxOffset),
     IdentifierInterval(<<IdentifierTuple(1, 2, 0, 0)>>, 0)}
DelIntervals ==
    {idInterval \in
        {IdentifierInterval(fromBase(i.idBegin, b), e) :
            i \in InsertIntervals, b \in OldOffsets, e \in OldOffsets} :
        /\ intervalBegin(idInterval) <= idInterval.end
        /\ \E i \in InsertIntervals :
            /\ equalsBase(i.idBegin, idInterval.idBegin)
            /\ idInterval.end <= i.end}
InsertOps == {RenamableLogootSAdd(LogootSAdd(i), OriginEpoch) : i \in InsertIntervals}

\* Block harness: the intervals and the counts a block is made with, the
\* plain objects fromPlain is given, and the lengths added and removed
BlockIntervals ==
    {IdentifierInterval(<<IdentifierTuple(0, n, 0, 0)>>, e) : n \in {1, 2}, e \in OldOffsets}
BlockCounts == 0..INT32_TOP
PlainBlocks ==
    {PlainObject([idInterval |-> PlainObject([idBegin |-> toPlainId(i.idBegin),
                                               end |-> PlainInt(i.end)]),
                  nbElement |-> n]) :
        i \in BlockIntervals,
        n \in {PlainInt(-1), PlainInt(0), PlainInt(1), PlainFloat(1), Undefined}}

\* Rope harness: the blocks, the sequences of node contents <<block,
\* offset, length>> without repetition, and the trees of every shape that
\* hold a sequence in order
TreeSequences ==
    LET TreeBlocks ==
            {LogootSBlock(IdentifierInterval(<<IdentifierTuple(k, 3, 0, 0)>>, MaxOffset),
                          MaxOffset + 1) : k \in 1..MaxNodes}
    IN
        LET TreeContents ==
                {<<b, 0, MaxOffset + 1>> : b \in TreeBlocks}
                    \cup {<<b, 1, MaxOffset>> : b \in {x \in TreeBlocks : x.idInterval.idBegin[1].random = 1}}
        IN
            {q \in SeqsUpTo(TreeContents, MaxNodes) :
                \A i \in DOMAIN q, j \in DOMAIN q : i # j => q[i][1] # q[j][1]}
RECURSIVE TreesOf(_)
TreesOf(q) ==
    IF q = <<>> THEN {NullNode}
    ELSE UNION {{RopesNodes(q[k][1], q[k][2], q[k][3], l, r) :
                    l \in TreesOf(SubSeq(q, 1, k - 1)),
                    r \in TreesOf(SubSeq(q, k + 1, Len(q)))} : k \in DOMAIN q}

\* Extended renaming harness.  Each replica's clock numbers the bases it
\* makes, so that one (replicaNumber, clock) goes with one base; offsets
\* go from -1 (an element put before a block) to MaxOffset.
ExtBaseTuples ==
    {IdentifierTuple(0, 0, 0, 0), IdentifierTuple(0, 2, 0, 0),
     IdentifierTuple(1, 0, 1, 0), IdentifierTuple(-1, 2, 1, 0)}
ExtSplitIds ==
    {<<IdentifierTuple(0, 0, 0, 0), IdentifierTuple(0, 2, 3, 0)>>,
     <<IdentifierTuple(0, 2, 0, 0), IdentifierTuple(-1, 0, 3, 0)>>}
ExtOldIds ==
    {<<[t EXCEPT !.offset = o]>> : t \in ExtBaseTuples, o \in -1..MaxOffset}
        \cup ExtSplitIds
ExtMaps ==
    LET ExtIntervals ==
            {idInterval \in
                {IdentifierInterval(<<[t EXCEPT !.offset = b]>>, e) :
                    t \in ExtBaseTuples, b \in OldOffsets, e \in OldOffsets}
                    \cup {IdentifierInterval(id, 0) : id \in ExtSplitIds} :
                intervalBegin(idInterval) <= idInterval.end}
    IN
        {ExtendedRenamingMap(rn, c, l) :
            rn \in RenamingReplicas, c \in RenameClocks,
            l \in {x \in SeqsUpTo(ExtIntervals, MaxIntervals) : x # <<>> /\ Ascending(x)}}

(***************************************************************************)
(* Tuple harness: IdentifierTuple.compareTo, IdentifierTuple.fromPlain     *)
(***************************************************************************)
TupleIdle ==
    /\ tcase = Idle /\ tuple = Idle /\ other = Idle /\ actual = Idle
    /\ plain = Idle /\ parsed = Idle
FactoryIdle ==
    /\ id1 = Idle /\ id2 = Idle /\ replicaNumber = Idle /\ clock = Idle
    /\ newId = Idle
RenameIdle ==
    /\ map = Idle /\ oldIds = Idle /\ newIds = Idle /\ backIds = Idle
TreeIdle ==
    /\ inorder = Idle /\ trees = Idle /\ treeLists = Idle
ListIdle ==
    /\ lists = Idle /\ sent = Idle /\ applied = Idle /\ early = Idle
    /\ block = Idle
    /\ TreeIdle

TupleInit ==
    /\ pc = "input"
    /\ ListIdle
    /\ actual = Idle
    /\ parsed = Idle
    /\ \/ /\ tcase = "compareTo"
          /\ tuple \in TestTuples
          /\ other \in TestTuples
          /\ plain = Idle
       \/ /\ tcase = "fromPlain"
          /\ plain \in PlainTuples
          /\ tuple = Idle
          /\ other = Idle
    /\ FactoryIdle
    /\ RenameIdle

CompareTuples ==
    /\ pc = "input"
    /\ tcase = "compareTo"
    /\ actual' = tupleCompareTo(tuple, other)
    /\ pc' = "done"
    /\ UNCHANGED <<treeVars, block, listVars, tcase, tuple, other, plain, parsed, factoryVars, renameVars>>

FromPlainTuple ==
    /\ pc = "input"
    /\ tcase = "fromPlain"
    /\ parsed' = tupleFromPlain(plain)
    /\ pc' = "done"
    /\ UNCHANGED <<treeVars, block, listVars, tcase, tuple, other, actual, plain, factoryVars, renameVars>>

TupleNext == CompareTuples \/ FromPlainTuple

TupleSpec == TupleInit /\ [][TupleNext]_vars

(***************************************************************************)
(* Factory harness: createBetweenPosition                                  *)
(***************************************************************************)
\* createBetweenPosition on a smaller choice of identifiers, so that the
\* long ones can be gone through
ShapeInit ==
    /\ pc = "input"
    /\ ListIdle
    /\ id1 \in ShapeIds \cup {NullId}
    /\ id2 \in ShapeIds \cup {NullId}
    /\ id1 = NullId \/ id2 = NullId \/ IdLess(id1, id2)
    /\ replicaNumber \in {1}
    /\ clock = 1
    /\ newId = Idle
    /\ TupleIdle
    /\ RenameIdle

FactoryInit ==
    /\ pc = "input"
    /\ ListIdle
    /\ id1 \in FactoryIds \cup {NullId}
    /\ id2 \in FactoryIds \cup {NullId}
    /\ id1 = NullId \/ id2 = NullId \/ IdLess(id1, id2)
    /\ replicaNumber \in {0, 1}
    /\ clock = 1
    /\ newId = Idle
    /\ TupleIdle
    /\ RenameIdle

CreateBetween ==
    /\ pc = "input"
    /\ newId' \in createBetweenPosition(id1, id2, replicaNumber, clock)
    /\ pc' = "done"
    /\ UNCHANGED <<treeVars, block, listVars, id1, id2, replicaNumber, clock, tupleVars, renameVars>>

FactoryNext == CreateBetween

FactorySpec == FactoryInit /\ [][FactoryNext]_vars

(***************************************************************************)
(* Renaming harness: RenamingMap.initRenameSeq, RenamingMap.reverseRenameId *)
(***************************************************************************)
RenameInit ==
    /\ pc = "input"
    /\ ListIdle
    /\ map \in TestMaps
    /\ \E id \in OldIds \cup {flatMapToIds(map.renamedIdIntervals, 1)[k] :
                                k \in 1..(map.maxOffset + 1)} :
            oldIds = <<id>>
    /\ newIds = Idle
    /\ backIds = Idle
    /\ TupleIdle
    /\ FactoryIdle

RenameOrderInit ==
    /\ pc = "input"
    /\ ListIdle
    /\ map \in TestMaps
    /\ \E a \in PairedOldIds, b \in PairedOldIds :
            /\ IdLess(a, b)
            /\ oldIds = <<a, b>>
    /\ newIds = Idle
    /\ backIds = Idle
    /\ TupleIdle
    /\ FactoryIdle

Rename ==
    /\ pc = "input"
    /\ newIds' = initRenameSeq(map, oldIds)
    /\ pc' = "renamed"
    /\ UNCHANGED <<treeVars, block, listVars, map, oldIds, backIds, tupleVars, factoryVars>>

ReverseRename ==
    /\ pc = "renamed"
    /\ backIds' = [k \in 1..Len(newIds) |-> reverseRenameId(map, newIds[k])]
    /\ pc' = "done"
    /\ UNCHANGED <<treeVars, block, listVars, map, oldIds, newIds, tupleVars, factoryVars>>

\* Ascending lists given to initRenameIds: one identifier, or one
\* identifier and the last renamed one
InitRenameInit ==
    /\ pc = "input"
    /\ ListIdle
    /\ map \in TestMaps
    /\ \/ \E id \in OldIds \cup {flatMapToIds(map.renamedIdIntervals, 1)[k] :
                                    k \in 1..(map.maxOffset + 1)} :
                oldIds = <<id>>
       \/ \E a \in {firstId(map)} \cup SiblingOldIds :
                /\ IdLess(a, lastId(map))
                /\ oldIds = <<a, lastId(map)>>
    /\ newIds = Idle
    /\ backIds = Idle
    /\ TupleIdle
    /\ FactoryIdle

InitRename ==
    /\ pc = "input"
    /\ newIds' = initRenameIds(map, oldIds)
    /\ pc' = "renamed"
    /\ UNCHANGED <<treeVars, block, listVars, map, oldIds, backIds, tupleVars, factoryVars>>

InitRenameNext == InitRename

InitRenameSpec == InitRenameInit /\ [][InitRenameNext]_vars

RenameNext == Rename \/ ReverseRename

RenameSpec == RenameInit /\ [][RenameNext]_vars

RenameOrderSpec == RenameOrderInit /\ [][RenameNext]_vars

(***************************************************************************)
(* Reverse-renaming harness: two identifiers are renamed, a third is       *)
(* inserted between them in the new epoch, and the three are brought back  *)
(* to the old epoch                                                        *)
(***************************************************************************)
ReverseInit ==
    /\ pc = "input"
    /\ ListIdle
    /\ map \in ReverseMaps
    /\ \E a \in ReverseOldIds \cup {firstId(map), lastId(map)},
          b \in ReverseOldIds \cup {firstId(map), lastId(map)} :
            /\ IdLess(a, b)
            /\ oldIds = <<a, b>>
    /\ newIds = Idle
    /\ backIds = Idle
    /\ TupleIdle
    /\ id1 = Idle /\ id2 = Idle /\ newId = Idle
    /\ replicaNumber \in {0, 2}
    /\ clock \in {2}

RenameBoth ==
    /\ pc = "input"
    /\ newIds' = initRenameSeq(map, oldIds)
    /\ pc' = "renamed"
    /\ UNCHANGED <<treeVars, block, listVars, map, oldIds, backIds, tupleVars, factoryVars>>

InsertBetween ==
    /\ pc = "renamed"
    /\ IdLess(newIds[1], newIds[2])
    /\ id1' = newIds[1]
    /\ id2' = newIds[2]
    /\ newId' \in createBetweenPosition(newIds[1], newIds[2], replicaNumber, clock)
    /\ pc' = "inserted"
    /\ UNCHANGED <<treeVars, block, listVars, renameVars, tupleVars, replicaNumber, clock>>

ReverseRenameAll ==
    /\ pc = "inserted"
    /\ backIds' = <<reverseRenameId(map, id1), reverseRenameId(map, newId),
                    reverseRenameId(map, id2)>>
    /\ pc' = "done"
    /\ UNCHANGED <<treeVars, block, listVars, map, oldIds, newIds, tupleVars, factoryVars>>

ReverseNext == RenameBoth \/ InsertBetween \/ ReverseRenameAll

ReverseSpec == ReverseInit /\ [][ReverseNext]_vars

(***************************************************************************)
(* Deserialization harness: RenamingMap.fromPlain                          *)
(***************************************************************************)
PlainInit ==
    /\ pc = "input"
    /\ ListIdle
    /\ tcase = "RenamingMap.fromPlain"
    /\ plain \in PlainMaps
    /\ parsed = Idle
    /\ tuple = Idle /\ other = Idle /\ actual = Idle
    /\ FactoryIdle
    /\ RenameIdle

FromPlainMap ==
    /\ pc = "input"
    /\ tcase = "RenamingMap.fromPlain"
    /\ parsed' = fromPlain(plain)
    /\ pc' = "done"
    /\ UNCHANGED <<treeVars, block, listVars, tcase, tuple, other, actual, plain, factoryVars, renameVars>>

PlainNext == FromPlainMap

PlainSpec == PlainInit /\ [][PlainNext]_vars

(***************************************************************************)
(* Replication harness: the replicas insert and delete locally, broadcast  *)
(* their operations, and apply those of the other, each once, in any order *)
(***************************************************************************)
ListInit ==
    /\ pc = "replicating"
    /\ lists = [r \in Replicas |-> <<>>]
    /\ sent = {}
    /\ applied = [r \in Replicas |-> {}]
    /\ early = [r \in Replicas |-> FALSE]
    /\ block = Idle
    /\ TreeIdle
    /\ TupleIdle
    /\ FactoryIdle
    /\ RenameIdle

InsertLocal(r) ==
    \E add \in InsertOps :
        /\ add.op.lid[1].idBegin[1].replicaNumber = r
        /\ add \notin sent
        /\ lists' = [lists EXCEPT ![r] = insertIds(@, toIds(add.op.lid[1]), 1)]
        /\ sent' = sent \cup {add}
        /\ applied' = [applied EXCEPT ![r] = @ \cup {add}]
        /\ UNCHANGED <<treeVars, block, early, tupleVars, factoryVars, renameVars, pc>>

DelLocal(r) ==
    \E idInterval \in DelIntervals :
        LET del == RenamableLogootSDel(LogootSDel(<<idInterval>>, r), OriginEpoch)
        IN /\ \A id \in idsOf(<<idInterval>>, 1) :
                \E k \in DOMAIN lists[r] : lists[r][k] = id
           /\ del \notin sent
           /\ lists' = [lists EXCEPT ![r] = delLocal(@, <<idInterval>>)]
           /\ sent' = sent \cup {del}
           /\ applied' = [applied EXCEPT ![r] = @ \cup {del}]
           /\ UNCHANGED <<treeVars, block, early, tupleVars, factoryVars, renameVars, pc>>

DeliverAdd(r) ==
    \E add \in sent \ applied[r] :
        /\ add.kind = "add"
        /\ lists' = [lists EXCEPT ![r] = executeAdd(@, add)]
        /\ applied' = [applied EXCEPT ![r] = @ \cup {add}]
        /\ UNCHANGED <<treeVars, block, sent, early, tupleVars, factoryVars, renameVars, pc>>

DeliverDel(r) ==
    \E del \in sent \ applied[r] :
        /\ del.kind = "del"
        /\ lists' = [lists EXCEPT ![r] = execute(@, del)]
        /\ applied' = [applied EXCEPT ![r] = @ \cup {del}]
        /\ early' = [early EXCEPT ![r] =
                        @ \/ \E add \in InsertOps \ applied[r] :
                                idsOf(add.op.lid, 1) \cap idsOf(del.op.lid, 1) # {}]
        /\ UNCHANGED <<treeVars, block, sent, tupleVars, factoryVars, renameVars, pc>>

ListNext ==
    \E r \in Replicas :
        InsertLocal(r) \/ DelLocal(r) \/ DeliverAdd(r) \/ DeliverDel(r)

ListSpec == ListInit /\ [][ListNext]_vars

(***************************************************************************)
(* Block harness: LogootSBlock constructor, fromPlain, addBlock, delBlock  *)
(***************************************************************************)
BlockInit ==
    /\ pc = "block"
    /\ \/ \E i \in BlockIntervals, n \in BlockCounts : block = LogootSBlock(i, n)
       \/ \E o \in PlainBlocks :
            /\ blockFromPlain(o) # NullBlock
            /\ block = blockFromPlain(o)
    /\ lists = Idle /\ sent = Idle /\ applied = Idle /\ early = Idle
    /\ TreeIdle
    /\ TupleIdle
    /\ FactoryIdle
    /\ RenameIdle

\* addBlock(pos, length), length > 0, for offsets that abut the interval
\* and stay int32
AddBlock ==
    \E length \in 1..2, pos \in Int32 :
        /\ \/ pos = block.idInterval.end + 1
           \/ pos + length = intervalBegin(block.idInterval)
        /\ pos + length - 1 <= INT32_TOP
        /\ block' = addBlock(block, pos, length)
        /\ UNCHANGED <<treeVars, listVars, tupleVars, factoryVars, renameVars, pc>>

\* delBlock(nbElt), nbElt > 0 (the count followed down to INT32_BOTTOM)
DelBlock ==
    \E nbElt \in 1..2 :
        /\ block.nbElement - nbElt >= INT32_BOTTOM
        /\ block' = delBlock(block, nbElt)
        /\ UNCHANGED <<treeVars, listVars, tupleVars, factoryVars, renameVars, pc>>

BlockNext == AddBlock \/ DelBlock

BlockSpec == BlockInit /\ [][BlockNext]_vars

(***************************************************************************)
(* Rope harness: RopesNodes.toList of two trees that hold the same nodes   *)
(* in the same order                                                       *)
(***************************************************************************)
TreeInit ==
    /\ pc = "input"
    /\ inorder \in TreeSequences
    /\ trees \in TreesOf(inorder) \X TreesOf(inorder)
    /\ treeLists = Idle
    /\ lists = Idle /\ sent = Idle /\ applied = Idle /\ early = Idle
    /\ block = Idle
    /\ TupleIdle
    /\ FactoryIdle
    /\ RenameIdle

ToList ==
    /\ pc = "input"
    /\ treeLists' = <<toList(trees[1]), toList(trees[2])>>
    /\ pc' = "done"
    /\ UNCHANGED <<inorder, trees, block, listVars, tupleVars, factoryVars, renameVars>>

TreeNext == ToList

TreeSpec == TreeInit /\ [][TreeNext]_vars

(***************************************************************************)
(* Extended renaming harness: ExtendedRenamingMap.renameId and             *)
(* reverseRenameId on two identifiers of the old epoch                     *)
(***************************************************************************)
ExtInit ==
    /\ pc = "input"
    /\ ListIdle
    /\ map \in ExtMaps
    /\ \E a \in ExtOldIds, b \in ExtOldIds :
            /\ IdLess(a, b)
            /\ oldIds = <<a, b>>
    /\ newIds = Idle
    /\ backIds = Idle
    /\ TupleIdle
    /\ FactoryIdle

ExtRename ==
    /\ pc = "input"
    /\ newIds' = [k \in DOMAIN oldIds |-> renameId(map, oldIds[k])]
    /\ pc' = "renamed"
    /\ UNCHANGED <<map, oldIds, backIds, treeVars, block, listVars, tupleVars, factoryVars>>

ExtReverseRename ==
    /\ pc = "renamed"
    /\ backIds' = [k \in DOMAIN newIds |-> extReverseRenameId(map, newIds[k])]
    /\ pc' = "done"
    /\ UNCHANGED <<map, oldIds, newIds, treeVars, block, listVars, tupleVars, factoryVars>>

ExtNext == ExtRename \/ ExtReverseRename

ExtSpec == ExtInit /\ [][ExtNext]_vars

ShapeSpec == ShapeInit /\ [][FactoryNext]_vars

(***************************************************************************)
(* Claims                                                                  *)
(***************************************************************************)

\* C1 (as claimed): whenever createBetweenPosition(id1, id2, replicaNumber,
\* clock) has returned newId for bounds id1 < id2 (NullId: no bound), newId
\* lies strictly between them: id1 < newId and newId < id2.
C1_FactoryBracketing ==
    pc = "done" =>
        /\ id1 = NullId \/ IdLess(id1, newId)
        /\ id2 = NullId \/ IdLess(newId, id2)

\* C8: tuple.compareTo(other) is the lexicographic order on (random,
\* replicaNumber, clock, offset): the result is one of Less, Equal, Greater;
\* it is Equal exactly when the four fields agree; otherwise the first
\* field in which the tuples differ decides it; it is Less exactly when
\* other.compareTo(tuple) is Greater; and Less is transitive.
C8_FirstDiff ==
    CHOOSE i \in 1..4 :
        /\ asArray(tuple)[i] # asArray(other)[i]
        /\ \A j \in 1..(i - 1) : asArray(tuple)[j] = asArray(other)[j]
C8_TupleOrder ==
    (pc = "done" /\ tcase = "compareTo") =>
        /\ actual \in {Less, Equal, Greater}
        /\ (actual = Equal) <=> (asArray(tuple) = asArray(other))
        /\ asArray(tuple) # asArray(other) =>
              /\ (actual = Less) <=>
                    (asArray(tuple)[C8_FirstDiff] < asArray(other)[C8_FirstDiff])
              /\ (actual = Greater) <=>
                    (asArray(tuple)[C8_FirstDiff] > asArray(other)[C8_FirstDiff])
        /\ (actual = Less) <=> (tupleCompareTo(other, tuple) = Greater)
        /\ \A third \in TestTuples :
              (actual = Less /\ tupleCompareTo(other, third) = Less)
                  => tupleCompareTo(tuple, third) = Less
\* C8 witness: a comparison decided by the third field, the clock.
C8_Witness ==
    /\ pc = "done" /\ tcase = "compareTo"
    /\ tuple.random = other.random
    /\ tuple.replicaNumber = other.replicaNumber
    /\ tuple.clock < other.clock
    /\ tuple.offset > other.offset
    /\ actual = Less

\* C9: IdentifierTuple.fromPlain(plain) returns the tuple of plain's four
\* fields when all four are present and are int32 integers (negative ones
\* included), and null when one of them is missing or is not an integer.
C9_Fields == {"random", "replicaNumber", "clock", "offset"}
C9_FromPlain ==
    (pc = "done" /\ tcase = "fromPlain") =>
        /\ (\A f \in C9_Fields : plain[f].t = "int" /\ plain[f].v \in Int32) =>
              /\ parsed # NullTuple
              /\ \A f \in C9_Fields : parsed[f] = plain[f].v
        /\ (\E f \in C9_Fields : plain[f].t \in {"undefined", "float"}) =>
              parsed = NullTuple
\* C9 witness: a plain object with a negative offset gives a tuple.
C9_Witness ==
    /\ pc = "done" /\ tcase = "fromPlain"
    /\ parsed # NullTuple
    /\ parsed.offset < 0
    /\ parsed.random = INT32_TOP

\* C3: rename then reverseRenameId gives back every identifier id of the
\* old epoch with firstId <= id <= lastId.
C3_InRange(m, id) == ~IdLess(id, firstId(m)) /\ ~IdLess(lastId(m), id)

C3_RoundTrip ==
    pc = "done" =>
        \A k \in DOMAIN oldIds :
            C3_InRange(map, oldIds[k]) => backIds[k] = oldIds[k]

\* C3's case: an identifier predecessorId . MIN_TUPLE . tail inside the
\* renamed range, renamed to newPredecessorId . tail and brought back.
C3_Witness ==
    /\ pc = "done"
    /\ C3_InRange(map, oldIds[1])
    /\ Len(oldIds[1]) > 2
    /\ oldIds[1][Len(oldIds[1]) - 1] = MIN_TUPLE
    /\ Len(newIds[1]) = 2
    /\ backIds[1] = oldIds[1]

\* C4: rename keeps the order of two identifiers of the old epoch.
C4_RenameOrder ==
    (pc \in {"renamed", "done"} /\ Len(oldIds) = 2) =>
        IdLess(newIds[1], newIds[2])

\* C6 as stated: rename leaves unchanged every identifier smaller than
\* firstId or greater than lastId.
C6_Outside(m, id) == IdLess(id, firstId(m)) \/ IdLess(lastId(m), id)

C6_MarkedLow(m, id) ==
    LET p == fromBase(firstId(m), lastOffset(firstId(m)) - 1)
    IN Len(p) + 1 < Len(id) /\ isPrefix(p, id) /\ id[Len(p) + 1] = MAX_TUPLE

C6_MarkedHigh(m, id) ==
    /\ IdLess(newLastId(m), lastId(m))
    /\ Len(lastId(m)) + 1 < Len(id)
    /\ isPrefix(lastId(m), id)
    /\ id[Len(lastId(m)) + 1] = MIN_TUPLE

RECURSIVE C7_Count(_, _)
C7_Count(idIntervals, j) ==
    IF j = 0 THEN 0
    ELSE C7_Count(idIntervals, j - 1)
            + (idIntervals[j].end - lastOffset(idIntervals[j].idBegin) + 1)

C7_DenseRenaming ==
    pc \in {"renamed", "done"} =>
        /\ map.maxOffset = C7_Count(map.renamedIdIntervals, Len(map.renamedIdIntervals)) - 1
        /\ \A k \in DOMAIN oldIds :
            /\ \A j \in DOMAIN map.renamedIdIntervals :
                LET idInterval == map.renamedIdIntervals[j]
                IN \A o \in lastOffset(idInterval.idBegin)..idInterval.end :
                    oldIds[k] = fromBase(idInterval.idBegin, o) =>
                        newIds[k] =
                            <<IdentifierTuple(firstId(map)[1].random,
                                map.replicaNumber, map.clock,
                                C7_Count(map.renamedIdIntervals, j - 1)
                                    + o - lastOffset(idInterval.idBegin))>>
            /\ oldIds[k] = firstId(map) => newIds[k] = newFirstId(map)
            /\ oldIds[k] = lastId(map) => newIds[k] = newLastId(map)

\* C7's case: the second identifier of the second interval of a map, which
\* is renamed to the offset after the first interval's identifiers.
C7_Witness ==
    /\ pc = "renamed"
    /\ Len(map.renamedIdIntervals) = 2
    /\ oldIds[1] = lastId(map)
    /\ lastOffset(map.renamedIdIntervals[2].idBegin) < map.renamedIdIntervals[2].end
    /\ Len(newIds[1]) = 1
    /\ newIds[1][1].offset = intervalLength(map.renamedIdIntervals[1]) + 1

\* C5: reverseRenameId keeps the order of identifiers of the new epoch:
\* with id1 < newId < id2 there, their reverse renamings (when none of
\* them throws) are in that order.
C5_ReverseOrder ==
    (/\ pc = "done"
     /\ IdLess(id1, newId) /\ IdLess(newId, id2)
     /\ \A k \in DOMAIN backIds : backIds[k] # Throw) =>
        /\ IdLess(backIds[1], backIds[2])
        /\ IdLess(backIds[2], backIds[3])

\* C10: RenamingMap.fromPlain returns null unless the payload is an object
\* whose replicaNumber and clock are int32 and whose renamedIdIntervals is
\* a non-empty array of which every element gives an IdentifierInterval;
\* then it returns the map of that replicaNumber, that clock and those
\* intervals, in the same order.
C10_Accepted(o) ==
    /\ o.t = "object"
    /\ \A f \in {"replicaNumber", "clock", "renamedIdIntervals"} : f \in DOMAIN o.v
    /\ \A f \in {"replicaNumber", "clock"} :
            o.v[f].t = "int" /\ o.v[f].v \in Int32
    /\ o.v.renamedIdIntervals.t = "array"
    /\ o.v.renamedIdIntervals.v # <<>>
    /\ \A k \in DOMAIN o.v.renamedIdIntervals.v :
            intervalFromPlain(o.v.renamedIdIntervals.v[k]) # NullInterval

C10_FromPlainWhole ==
    (pc = "done" /\ tcase = "RenamingMap.fromPlain") =>
        IF C10_Accepted(plain)
        THEN /\ parsed # NullMap
             /\ parsed.replicaNumber = plain.v.replicaNumber.v
             /\ parsed.clock = plain.v.clock.v
             /\ Len(parsed.renamedIdIntervals) = Len(plain.v.renamedIdIntervals.v)
             /\ \A k \in DOMAIN parsed.renamedIdIntervals :
                    parsed.renamedIdIntervals[k] =
                        intervalFromPlain(plain.v.renamedIdIntervals.v[k])
        ELSE parsed = NullMap

\* C10's case: a payload that is well formed but for one of its two
\* intervals is rejected as a whole.
C10_Witness ==
    /\ pc = "done" /\ tcase = "RenamingMap.fromPlain"
    /\ isInt32(prop(plain, "replicaNumber")) /\ isInt32(prop(plain, "clock"))
    /\ isArray(prop(plain, "renamedIdIntervals"))
    /\ Len(prop(plain, "renamedIdIntervals").v) = 2
    /\ intervalFromPlain(prop(plain, "renamedIdIntervals").v[1]) # NullInterval
    /\ intervalFromPlain(prop(plain, "renamedIdIntervals").v[2]) = NullInterval
    /\ parsed = NullMap

C11_NbElementNonNegative ==
    pc = "block" => (0 <= block.nbElement /\ block.nbElement <= INT32_TOP)

\* C12: toList gives the nodes' intervals in in-order, so two trees that
\* hold the same nodes in the same order give equal lists whatever their
\* shapes.
C12_ShapeIndependent ==
    pc = "done" =>
        /\ treeLists[1] = treeLists[2]
        /\ Len(treeLists[1]) = Len(inorder)
        /\ \A k \in DOMAIN inorder :
            /\ treeLists[1][k].idBegin =
                    fromBase(inorder[k][1].idInterval.idBegin, inorder[k][2])
            /\ treeLists[1][k].end = inorder[k][2] + inorder[k][3] - 1

\* C12's case: a balanced tree and a right-leaning one of three nodes.
C12_Witness ==
    /\ pc = "done"
    /\ Len(inorder) = 3
    /\ trees[1].left # NullNode /\ trees[1].right # NullNode
    /\ trees[2].left = NullNode /\ trees[2].right.left = NullNode
    /\ treeLists[1] = treeLists[2]

\* the renamed identifiers of m, in order, and the index (from 0) of the
\* greatest of them that is below id
C13_RenamedIds(m) ==
    [i \in 0..m.maxOffset |->
        LET j == CHOOSE j \in DOMAIN m.renamedIdIntervals :
                    /\ C7_Count(m.renamedIdIntervals, j - 1) <= i
                    /\ i < C7_Count(m.renamedIdIntervals, j)
        IN fromBase(m.renamedIdIntervals[j].idBegin,
                    lastOffset(m.renamedIdIntervals[j].idBegin)
                        + i - C7_Count(m.renamedIdIntervals, j - 1))]

C13_Concurrent(m, id) ==
    /\ IdLess(firstId(m), id) /\ IdLess(id, lastId(m))
    /\ \A i \in 0..m.maxOffset : C13_RenamedIds(m)[i] # id

C13_PredecessorIndex(m, id) ==
    CHOOSE i \in 0..m.maxOffset :
        /\ IdLess(C13_RenamedIds(m)[i], id)
        /\ \A j \in 0..m.maxOffset : IdLess(C13_RenamedIds(m)[j], id) => j <= i

\* C13 as stated: an identifier inserted concurrently between two renamed
\* identifiers is renamed to the new identifier of its predecessor
\* followed by all its tuples.
C13_PredecessorThenId ==
    pc \in {"renamed", "done"} =>
        \A k \in DOMAIN oldIds :
            C13_Concurrent(map, oldIds[k]) =>
                newIds[k] =
                    <<IdentifierTuple(firstId(map)[1].random, map.replicaNumber,
                        map.clock, C13_PredecessorIndex(map, oldIds[k]))>> \o oldIds[k]

\* the forms predecessorId . MIN_TUPLE . tail, tail < predecessorId, and
\* closestPredecessorOf(successorId) . MAX_TUPLE . tail, successorId < tail
C13_MarkedTail(m, id) ==
    LET i == C13_PredecessorIndex(m, id)
        p == C13_RenamedIds(m)[i]
        q == C13_RenamedIds(m)[i + 1]
    IN IF /\ Len(p) + 1 < Len(id) /\ isPrefix(p, id) /\ id[Len(p) + 1] = MIN_TUPLE
          /\ IdLess(getTail(id, Len(p) + 1), p)
       THEN getTail(id, Len(p) + 1)
       ELSE IF /\ Len(q) + 1 < Len(id)
               /\ isPrefix(fromBase(q, lastOffset(q) - 1), id)
               /\ id[Len(q) + 1] = MAX_TUPLE
               /\ IdLess(q, getTail(id, Len(q) + 1))
       THEN getTail(id, Len(q) + 1)
       ELSE id

\* C13 amended: it is renamed to the new identifier of its predecessor
\* followed by all its tuples, or, when it has one of the marked forms, by
\* its tail only.
C13_PredecessorThenIdOrTail ==
    pc \in {"renamed", "done"} =>
        \A k \in DOMAIN oldIds :
            C13_Concurrent(map, oldIds[k]) =>
                newIds[k] =
                    <<IdentifierTuple(firstId(map)[1].random, map.replicaNumber,
                        map.clock, C13_PredecessorIndex(map, oldIds[k]))>>
                        \o C13_MarkedTail(map, oldIds[k])

\* C13's case: an identifier without mark between the second and the third
\* renamed identifiers, renamed to (newRandom, replicaNumber, clock, 1)
\* followed by its tuples.
C13_Witness ==
    /\ pc = "renamed"
    /\ C13_Concurrent(map, oldIds[1])
    /\ C13_PredecessorIndex(map, oldIds[1]) = 1
    /\ C13_MarkedTail(map, oldIds[1]) = oldIds[1]
    /\ newIds[1] = <<newIds[1][1]>> \o oldIds[1]
    /\ newIds[1][1].offset = 1

\* an identifier of the new epoch inside the new range that is not the new
\* identifier of a renamed one
C14_Inside(m, id) ==
    /\ IdLess(newFirstId(m), id) /\ IdLess(id, newLastId(m))
    /\ Len(id) > 1

C14_Expected(m, id) ==
    LET tail == SubSeq(id, 2, Len(id))
        predecessorId == C13_RenamedIds(m)[id[1].offset]
        successorId == C13_RenamedIds(m)[id[1].offset + 1]
    IN IF IdLess(tail, predecessorId)
       THEN predecessorId \o <<MIN_TUPLE>> \o tail
       ELSE IF IdLess(successorId, tail)
       THEN fromBase(successorId, lastOffset(successorId) - 1) \o <<MAX_TUPLE>> \o tail
       ELSE tail

C15_ReverseTotal ==
    (pc = "done" /\ IdLess(id1, newId) /\ IdLess(newId, id2)) =>
        \A k \in DOMAIN backIds : backIds[k] # Throw

\* C16: ExtendedRenamingMap.renameId keeps the order of two identifiers of
\* the old epoch, those outside [firstId, lastId] included.
C16_ExtRenameOrder ==
    pc \in {"renamed", "done"} => IdLess(newIds[1], newIds[2])

\* C17: ExtendedRenamingMap.reverseRenameId gives back every identifier
\* between firstId and lastId that renameId renamed.
C17_ExtRoundTrip ==
    pc = "done" =>
        \A k \in DOMAIN oldIds :
            (/\ ~IdLess(oldIds[k], extFirstId(map))
             /\ ~IdLess(extLastId(map), oldIds[k])) => backIds[k] = oldIds[k]

\* the tuples of id1 and id2 at depth d, after the padding
C18_Tuple1(d) == IF d <= Len(id1) THEN id1[d] ELSE MIN_TUPLE

C18_Tuple2(d) == IF d <= Len(id2) THEN id2[d] ELSE MAX_TUPLE

\* C18: the identifier createBetweenPosition returns is k tuples of id1
\* (MIN_TUPLE past its end) where the gap of randoms is below 2, then one
\* tuple (random, replicaNumber, clock, 0) at the first depth where the gap
\* is at least 2, its random strictly between the two.
C18_GeneratedShape ==
    pc = "done" =>
        LET k == Len(newId) - 1
        IN /\ k >= 0
           /\ \A d \in 1..k :
                /\ newId[d] = C18_Tuple1(d)
                /\ C18_Tuple2(d).random - C18_Tuple1(d).random < 2
           /\ C18_Tuple2(k + 1).random - C18_Tuple1(k + 1).random >= 2
           /\ newId[k + 1].replicaNumber = replicaNumber
           /\ newId[k + 1].clock = clock
           /\ newId[k + 1].offset = 0
           /\ C18_Tuple1(k + 1).random < newId[k + 1].random
           /\ newId[k + 1].random < C18_Tuple2(k + 1).random

\* id1 is gone through, one MIN_TUPLE was copied, and the tuple of id2 at
\* that depth was not
C18_Witness ==
    /\ pc = "done"
    /\ Len(id1) >= 1
    /\ Len(newId) = Len(id1) + 2
    /\ Len(id2) > Len(id1)
    /\ id2[Len(id1) + 1] # MIN_TUPLE

C19_Max(a, b) == IF a < b THEN b ELSE a

\* C19: createBetweenPosition returns from every input, and what it
\* returns has at most max(|id1|, |id2|) + 1 tuples.
C19_Bounded ==
    /\ pc = "input" => createBetweenPosition(id1, id2, replicaNumber, clock) # {}
    /\ pc = "done" => Len(newId) <= C19_Max(Len(id1), Len(id2)) + 1

\* the loop went through both identifiers down to the padding
C19_Witness ==
    /\ pc = "done"
    /\ Len(id1) >= 1
    /\ Len(id2) >= 1
    /\ Len(newId) = C19_Max(Len(id1), Len(id2)) + 1

\* the index of the greatest renamed identifier <= id, -1 without one
C20_Index(id) ==
    LET renamedIds == C13_RenamedIds(map)
        atMost == {k \in 0..map.maxOffset : ~IdLess(id, renamedIds[k])}
    IN IF atMost = {} THEN -1
       ELSE CHOOSE k \in atMost : \A j \in atMost : j <= k

\* C20: initRenameIds gives what initRenameSeq gives, and the index it
\* starts from is that of the greatest renamed identifier <= ids[0], -1
\* below firstId and maxOffset above lastId.
C20_BinarySearchStart ==
    pc = "renamed" =>
        /\ newIds = initRenameSeq(map, oldIds)
        /\ findIndexOfIdOrPredecessor(map, oldIds[1]) = C20_Index(oldIds[1])

\* ids[0] splits the second interval of the map, after its first
\* identifier, and the search ends on that identifier
C20_Witness ==
    /\ pc = "renamed"
    /\ Len(map.renamedIdIntervals) >= 2
    /\ intervalLength(map.renamedIdIntervals[2]) >= 2
    /\ Len(oldIds[1]) > Len(map.renamedIdIntervals[2].idBegin)
    /\ isPrefix(map.renamedIdIntervals[2].idBegin, oldIds[1])
    /\ findIndexOfIdOrPredecessor(map, oldIds[1]) = map.indexes[2]
    /\ newIds = initRenameSeq(map, oldIds)

====
